---- MODULE Spec2Model ----
(***************************************************************************)
(* Model of the strategy-integration engine of daily_stock_analysis        *)
(* (src/src/strategy_integration.py).                                      *)
(*                                                                         *)
(* Number representation (Python floats become exact integers):            *)
(*   total_score, threshold, peg_ratio : tenths       (7.5  -> 75)         *)
(*   confidence_score                  : hundredths   (9.2  -> 920)        *)
(*   suggested_position                : millionths   (0.08 -> 80000)      *)
(*   prices                            : whole currency units              *)
(*   a quotient a / b                  : the pair <<a, b>>; a pair whose   *)
(*                                       second component is 0 stands for  *)
(*                                       a raised ZeroDivisionError        *)
(*   Optional[float]                   : <<>> for None, <<v>> for v        *)
(***************************************************************************)
EXTENDS Integers, Sequences, FiniteSets, TLC

VARIABLES pc, call, rational_scores, growth_positions, short_term_signals,
          data_provider, wrapper

vars == <<pc, call, rational_scores, growth_positions, short_term_signals,
          data_provider, wrapper>>

(* ---------------------------- bounds ----------------------------------- *)

\* longest verdict collection handed to integrate_strategies
MaxLen == 2

\* most snapshots in a frame of fundamentals
MaxSnapshots == 2

\* most closing prices in a price series
MaxCloses == 21

\* most instruments in the stock list of a pipeline run
MaxStocks == 2

\* most bars in a price history
MaxBars == 11

\* most failures counted against a data source
MaxFailures == 2

\* largest max_retries a wrapper is made with
MaxRetries == 3

\* most calls of one wrapper that are followed
MaxCalls == 4

(* ------------------------- enums and constants ------------------------- *)

TOP_RIGHT == "top_right"
BOTTOM_RIGHT == "bottom_right"
TOP_LEFT == "top_left"
BOTTOM_LEFT == "bottom_left"

Quadrant == {TOP_RIGHT, BOTTOM_RIGHT, TOP_LEFT, BOTTOM_LEFT}

LEVEL_1 == 1
LEVEL_2 == 2
LEVEL_3 == 3

SignalLevel == {LEVEL_1, LEVEL_2, LEVEL_3}

\* config["rational_investment"]["score_threshold"] = 7.5, in tenths
rational_threshold == 75

\* config["growth_valuation_map"]["target_quadrant"]
target_quadrant == BOTTOM_RIGHT

\* max_position = 0.08, in millionths
max_position == 80000

None == <<>>

Some(v) == <<v>>

\* Python truthiness of an Optional[float]: None and 0.0 are falsy
Truthy(opt) == opt # None /\ opt[1] # 0

Min(a, b) == IF a <= b THEN a ELSE b

(* ------------------------- quotients ----------------------------------- *)

ZeroDivisionError == <<0, 0>>

\* the int 0 / float 0.0 returned by the guarded branches
Zero == <<0, 1>>

\* Python's a / b on numbers
FloatDiv(a, b) == IF b = 0 THEN ZeroDivisionError ELSE <<a, b>>

Raised(q) == q[2] = 0

\* q = 0 as a number
IsZero(q) == q[2] # 0 /\ q[1] = 0

\* q > n / d for a quotient with positive denominator, d > 0
QGreater(q, n, d) == q[1] * d > n * q[2]

(* ------------------------- verdict records ----------------------------- *)

RationalInvestmentScore(code, score, veto) ==
    [stock_code |-> code, total_score |-> score, survival_veto |-> veto]

GrowthValuationPosition(code, quad, peg) ==
    [stock_code |-> code, quadrant |-> quad, peg_ratio |-> peg]

ShortTermSignal(code, trend, sentiment, structure, soft, price, t1, t2, stop) ==
    [stock_code |-> code,
     trend_conditions_met |-> trend,
     sentiment_conditions_met |-> sentiment,
     structure_conditions_met |-> structure,
     soft_conditions_met |-> soft,
     current_price |-> price,
     first_target |-> t1,
     second_target |-> t2,
     stop_loss |-> stop]

(* ------------------------- verdict methods ----------------------------- *)

\* is_pass as it would be if the veto were forgotten
is_pass_ignoring_veto(self, threshold) == self.total_score >= threshold

is_pass(self, threshold) ==
    ~self.survival_veto /\ self.total_score >= threshold

is_in_target_quadrant(self, target) == self.quadrant = target

all_hard_conditions_met(self) ==
    /\ self.trend_conditions_met
    /\ self.sentiment_conditions_met
    /\ self.structure_conditions_met

potential_return(self) ==
    IF self.current_price > 0
    THEN <<FloatDiv(self.first_target - self.current_price, self.current_price),
           FloatDiv(self.second_target - self.current_price, self.current_price)>>
    ELSE <<Zero, Zero>>

\* risk_reward_ratio as it would be if the guard let a loss of 0 through
risk_reward_ratio_zero_loss(self) ==
    LET potential_gain == self.first_target - self.current_price
        potential_loss == self.current_price - self.stop_loss
    IN  IF potential_loss >= 0
        THEN FloatDiv(potential_gain, potential_loss)
        ELSE Zero

risk_reward_ratio(self) ==
    LET potential_gain == self.first_target - self.current_price
        potential_loss == self.current_price - self.stop_loss
    IN  IF potential_loss > 0
        THEN FloatDiv(potential_gain, potential_loss)
        ELSE Zero

(* ------------------------- StrategyIntegrator -------------------------- *)

\* _determine_signal_level as it would be if Tier 2 took either gate
determine_signal_level_either(pass_rational, pass_growth, pass_short_term) ==
    IF pass_rational /\ pass_growth /\ pass_short_term THEN LEVEL_1
    ELSE IF pass_growth \/ pass_short_term THEN LEVEL_2
    ELSE IF pass_rational THEN LEVEL_3
    ELSE LEVEL_3

determine_signal_level(pass_rational, pass_growth, pass_short_term) ==
    IF pass_rational /\ pass_growth /\ pass_short_term THEN LEVEL_1
    ELSE IF pass_growth /\ pass_short_term THEN LEVEL_2
    ELSE IF pass_rational THEN LEVEL_3
    ELSE LEVEL_3

\* rational_score_norm * 4.0 = min(total_score / 10, 1) * 4, in hundredths
rational_contribution(rational) == Min(4 * rational.total_score, 400)

growth_contribution(growth) ==
    IF growth.quadrant = target_quadrant THEN 300
    ELSE IF Truthy(growth.peg_ratio) /\ growth.peg_ratio[1] < 10 THEN 200
    ELSE 100

short_term_contribution(short_term) ==
    (IF all_hard_conditions_met(short_term) THEN 200 ELSE 0)
    + (IF short_term.soft_conditions_met >= 3 THEN 100 ELSE 0)

\* _calculate_confidence_score as it would be without the pass_all bonus
calculate_confidence_score_no_bonus(rational, growth, short_term, pass_all) ==
    LET score == rational_contribution(rational)
                 + growth_contribution(growth)
                 + short_term_contribution(short_term)
    IN  Min(score, 1000)

calculate_confidence_score(rational, growth, short_term, pass_all) ==
    LET score == rational_contribution(rational)
                 + growth_contribution(growth)
                 + short_term_contribution(short_term)
                 + (IF pass_all THEN 100 ELSE 0)
    IN  Min(score, 1000)

\* base_position in hundredths
base_position(signal_level) ==
    IF signal_level = LEVEL_1 THEN 4
    ELSE IF signal_level = LEVEL_2 THEN 2
    ELSE 1

\* rr_multiplier in tenths
rr_multiplier(rr) ==
    IF QGreater(rr, 2, 1) THEN 12
    ELSE IF QGreater(rr, 3, 2) THEN 10
    ELSE 8

\* hundredths * hundredths / 10 * tenths = millionths
calculate_position_size(signal_level, confidence_score, rr) ==
    LET final_position == base_position(signal_level) * confidence_score
                          * rr_multiplier(rr)
    IN  Min(final_position, max_position)


\* rational_dict / growth_dict / short_term_dict: {x.stock_code: x for x in xs}
dict_keys(xs) == {xs[i].stock_code : i \in 1..Len(xs)}

\* a later record replaces an earlier one with the same stock_code
dict_get(xs, code) ==
    LET last == CHOOSE i \in 1..Len(xs) :
                    /\ xs[i].stock_code = code
                    /\ \A j \in (i + 1)..Len(xs) : xs[j].stock_code # code
    IN  xs[last]

\* the body of the loop for one code that has all three verdicts
IntegratedSignal(code, rational, growth, short_term) ==
    LET pass_rational == is_pass(rational, rational_threshold)
        pass_growth == is_in_target_quadrant(growth, target_quadrant)
        pass_short_term == all_hard_conditions_met(short_term)
        signal_level == determine_signal_level(pass_rational, pass_growth,
                                               pass_short_term)
        pass_all == pass_rational /\ pass_growth /\ pass_short_term
        confidence_score == calculate_confidence_score(rational, growth,
                                                       short_term, pass_all)
        suggested_position ==
            calculate_position_size(signal_level, confidence_score,
                                    risk_reward_ratio(short_term))
    IN  [stock_code |-> code,
         rational_investment |-> rational,
         growth_valuation |-> growth,
         short_term |-> short_term,
         signal_level |-> signal_level,
         pass_all_strategies |-> pass_all,
         suggested_position |-> suggested_position,
         \* current_price * 0.98, current_price * 1.02, in hundredths
         entry_price_range |-> <<98 * short_term.current_price,
                                 102 * short_term.current_price>>,
         targets |-> <<short_term.first_target, short_term.second_target>>,
         stop_loss |-> short_term.stop_loss,
         holding_period |-> <<5, 20>>,
         confidence_score |-> confidence_score]

\* key=lambda x: (x.signal_level.value, x.confidence_score), tuple order
KeyLess(a, b) ==
    \/ a.signal_level < b.signal_level
    \/ a.signal_level = b.signal_level /\ a.confidence_score < b.confidence_score

\* x goes behind every element whose key is not smaller (stable, reverse=True)
InsertDescending(sorted, x) ==
    LET n == Cardinality({i \in 1..Len(sorted) : ~KeyLess(sorted[i], x)})
    IN  SubSeq(sorted, 1, n) \o <<x>> \o SubSeq(sorted, n + 1, Len(sorted))

RECURSIVE sort_reverse(_)
sort_reverse(xs) ==
    IF xs = <<>> THEN <<>>
    ELSE InsertDescending(sort_reverse(SubSeq(xs, 1, Len(xs) - 1)), xs[Len(xs)])

\* the orders in which "for code in all_codes" can visit a set of strings
IterationOrders(S) ==
    {o \in [1..Cardinality(S) -> S] : \A i, j \in DOMAIN o : i # j => o[i] # o[j]}

\* the loop as it would be if a code that passes no gate were skipped as well
RECURSIVE collect_signals_passing(_, _, _, _)
collect_signals_passing(order, rs, gs, ss) ==
    IF order = <<>> THEN <<>>
    ELSE LET code == Head(order)
             rest == collect_signals_passing(Tail(order), rs, gs, ss)
         IN  IF \/ code \notin dict_keys(rs)
                \/ code \notin dict_keys(gs)
                \/ code \notin dict_keys(ss)
             THEN rest
             ELSE IF /\ ~is_pass(dict_get(rs, code), rational_threshold)
                     /\ ~is_in_target_quadrant(dict_get(gs, code), target_quadrant)
                     /\ ~all_hard_conditions_met(dict_get(ss, code))
             THEN rest
             ELSE <<IntegratedSignal(code, dict_get(rs, code), dict_get(gs, code),
                                     dict_get(ss, code))>> \o rest

RECURSIVE collect_signals(_, _, _, _)
collect_signals(order, rs, gs, ss) ==
    IF order = <<>> THEN <<>>
    ELSE LET code == Head(order)
             rest == collect_signals(Tail(order), rs, gs, ss)
         IN  IF \/ code \notin dict_keys(rs)
                \/ code \notin dict_keys(gs)
                \/ code \notin dict_keys(ss)
             THEN rest
             ELSE <<IntegratedSignal(code, dict_get(rs, code), dict_get(gs, code),
                                     dict_get(ss, code))>> \o rest

\* integrate_strategies for one iteration order of all_codes
integrate_strategies(order, rs, gs, ss) ==
    sort_reverse(collect_signals(order, rs, gs, ss))

all_codes(rs, gs, ss) == dict_keys(rs) \cup dict_keys(gs) \cup dict_keys(ss)

(* ------------------------- timing gate --------------------------------- *)

\* the 20 of len(price_df) < 20 and close[-20:]
timing_window == 20

\* close[-k:].sum()
RECURSIVE SumLast(_, _)
SumLast(xs, k) ==
    IF k = 0 \/ xs = <<>> THEN 0
    ELSE xs[Len(xs)] + SumLast(SubSeq(xs, 1, Len(xs) - 1), k - 1)

\* gate3_timing as it would be if a close at the mean counted as recovered
gate3_timing_at_mean(price_df) ==
    IF price_df = None \/ Len(price_df[1]) < timing_window THEN "NO"
    ELSE LET close == price_df[1]
             recent == close[Len(close)]
             total == SumLast(close, timing_window)
         IN  IF 100 * timing_window * recent < 95 * total THEN "WATCH"
             ELSE IF timing_window * recent >= total THEN "YES"
             ELSE "NO"

\* price_df is None, or Some(closes) with the closing prices oldest first;
\* ma20 = total / 20, so recent < ma20 * 0.95 is 100 * 20 * recent < 95 * total
\* and recent > ma20 is 20 * recent > total
gate3_timing(price_df) ==
    IF price_df = None \/ Len(price_df[1]) < timing_window THEN "NO"
    ELSE LET close == price_df[1]
             recent == close[Len(close)]
             total == SumLast(close, timing_window)
         IN  IF 100 * timing_window * recent < 95 * total THEN "WATCH"
             ELSE IF timing_window * recent > total THEN "YES"
             ELSE "NO"

(* ------------------------- configuration ------------------------------- *)

\* a parsed strategies.yaml: each section and each key may be absent
ConfigDocument(threshold_section, threshold, quadrant_section, quadrant) ==
    [rational_investment |->
         IF threshold_section THEN Some([score_threshold |-> threshold]) ELSE None,
     growth_valuation_map |->
         IF quadrant_section THEN Some([target_quadrant |-> quadrant]) ELSE None]

get_default_config ==
    ConfigDocument(TRUE, Some(rational_threshold), TRUE, Some(target_quadrant))

\* config_file is None when open() raises FileNotFoundError
load_config(config_file) ==
    IF config_file = None THEN get_default_config ELSE config_file[1]

Built(threshold, quadrant) ==
    [raised |-> "None", rational_threshold |-> Some(threshold),
     target_quadrant |-> Some(quadrant)]

Failed(exception) ==
    [raised |-> exception, rational_threshold |-> None, target_quadrant |-> None]

\* StrategyIntegrator.__init__: config[...][...] raises KeyError on an absent
\* key, Quadrant(...) raises ValueError on a string that names no quadrant
StrategyIntegrator_init(config_file) ==
    LET config == load_config(config_file)
    IN  IF config.rational_investment = None THEN Failed("KeyError")
        ELSE IF config.rational_investment[1].score_threshold = None
        THEN Failed("KeyError")
        ELSE IF config.growth_valuation_map = None THEN Failed("KeyError")
        ELSE IF config.growth_valuation_map[1].target_quadrant = None
        THEN Failed("KeyError")
        ELSE IF config.growth_valuation_map[1].target_quadrant[1] \notin Quadrant
        THEN Failed("ValueError")
        ELSE Built(config.rational_investment[1].score_threshold[1],
                   config.growth_valuation_map[1].target_quadrant[1])

(* ------------------------- gates --------------------------------------- *)

Max(a, b) == IF a >= b THEN a ELSE b

\* one row of the fundamentals frame; a column the row lacks is None
\*   leverage 资产负债率, liquidity 流动比率, roe ROE, cashflow 经营现金流量净额,
\*   net_profit 净利润, profit_growth 净利润同比, pe 市盈率
FundamentalRow(leverage, liquidity, roe, cashflow, net_profit, profit_growth, pe) ==
    [leverage |-> leverage, liquidity |-> liquidity, roe |-> roe,
     cashflow |-> cashflow, net_profit |-> net_profit,
     profit_growth |-> profit_growth, pe |-> pe]

\* a float that is not a number: the value a frame holds where a record gave
\* none for a column that another record of the frame has
NaN == <<0, 0>>

\* x < n, x > n and x <= n for a float x, Some(v) or NaN: every comparison
\* with NaN is False
float_lt(x, n) == x # NaN /\ x[1] < n

float_gt(x, n) == x # NaN /\ x[1] > n

float_le(x, n) == x # NaN /\ x[1] <= n

\* row.get(column, default): the default only when the row has no such label;
\* otherwise the value of the row, which may be NaN
row_get(row, column, default) ==
    IF row[column] = None THEN Some(default) ELSE row[column]

\* frame.iloc[-1], frame the records oldest first: the columns of the frame
\* are those any record has, and the row holds NaN where its record has none
iloc_last(frame) ==
    LET last == frame[Len(frame)]
    IN  [column \in DOMAIN last |->
            IF last[column] # None THEN last[column]
            ELSE IF \E i \in 1..Len(frame) : frame[i][column] # None THEN NaN
            ELSE None]

\* gate1_score as it would be without the final max(score, 0)
gate1_score_unclamped(funda) ==
    IF funda = None \/ Len(funda[1]) = 0 THEN 0
    ELSE LET row == iloc_last(funda[1])
             score == (IF float_lt(row_get(row, "leverage", 100), 70) THEN 2 ELSE 0)
                      + (IF float_gt(row_get(row, "liquidity", 0), 1) THEN 1 ELSE 0)
                      + (IF float_gt(row_get(row, "roe", 0), 10) THEN 2 ELSE 0)
                      + (IF float_gt(row_get(row, "cashflow", -1), 0) THEN 2 ELSE 0)
                      - (IF float_lt(row_get(row, "net_profit", -1), 0) THEN 2 ELSE 0)
         IN  score

\* funda is None, or Some(frame) with frame the rows oldest first
gate1_score(funda) ==
    IF funda = None \/ Len(funda[1]) = 0 THEN 0
    ELSE LET row == iloc_last(funda[1])
             score == (IF float_lt(row_get(row, "leverage", 100), 70) THEN 2 ELSE 0)
                      + (IF float_gt(row_get(row, "liquidity", 0), 1) THEN 1 ELSE 0)
                      + (IF float_gt(row_get(row, "roe", 0), 10) THEN 2 ELSE 0)
                      + (IF float_gt(row_get(row, "cashflow", -1), 0) THEN 2 ELSE 0)
                      - (IF float_lt(row_get(row, "net_profit", -1), 0) THEN 2 ELSE 0)
         IN  Max(score, 0)

\* gate2_priority as it would be if the top tier did not look at the valuation
gate2_priority_growth_only(funda) ==
    IF funda = None \/ Len(funda[1]) < 2 THEN 0
    ELSE LET row == iloc_last(funda[1])
             growth == row_get(row, "profit_growth", 0)
             pe == row_get(row, "pe", 100)
         IN  IF float_le(growth, 0) THEN 0
             ELSE IF float_gt(growth, 30) THEN 3
             ELSE IF float_gt(growth, 20) THEN 2
             ELSE IF float_gt(growth, 10) THEN 1
             ELSE 0

gate2_priority(funda) ==
    IF funda = None \/ Len(funda[1]) < 2 THEN 0
    ELSE LET row == iloc_last(funda[1])
             growth == row_get(row, "profit_growth", 0)
             pe == row_get(row, "pe", 100)
         IN  IF float_le(growth, 0) THEN 0
             ELSE IF float_gt(growth, 30) /\ float_lt(pe, 20) THEN 3
             ELSE IF float_gt(growth, 20) THEN 2
             ELSE IF float_gt(growth, 10) THEN 1
             ELSE 0

(* ------------------------- pipeline ------------------------------------ *)

\* what the data library does when asked: raise, or hand back data
Response(raises, data) == [raises |-> raises, data |-> data]

\* fetch_daily / fetch_fundamental: any exception becomes None
fetch_daily(response) ==
    IF response.raises THEN None ELSE Some(response.data)

fetch_fundamental(response) ==
    IF response.raises THEN None ELSE Some(response.data)

\* the loop as it would be if a timing of NO dropped the instrument
RECURSIVE pipeline_results_timed(_)
pipeline_results_timed(stocks) ==
    IF stocks = <<>> THEN <<>>
    ELSE LET row == Head(stocks)
             rest == pipeline_results_timed(Tail(stocks))
             daily == fetch_daily(row.daily)
             funda == fetch_fundamental(row.funda)
             s1 == gate1_score(funda)
             s2 == gate2_priority(funda)
             timing == gate3_timing(daily)
         IN  IF s1 < 6 THEN rest
             ELSE IF s2 = 0 THEN rest
             ELSE IF timing = "NO" THEN rest
             ELSE <<[code |-> row.code, gate1_score |-> s1,
                     gate2_priority |-> s2, timing |-> timing]>> \o rest

\* the loop over the stock list: the rows appended to results
RECURSIVE pipeline_results(_)
pipeline_results(stocks) ==
    IF stocks = <<>> THEN <<>>
    ELSE LET row == Head(stocks)
             rest == pipeline_results(Tail(stocks))
             daily == fetch_daily(row.daily)
             funda == fetch_fundamental(row.funda)
             s1 == gate1_score(funda)
             s2 == gate2_priority(funda)
             timing == gate3_timing(daily)
         IN  IF s1 < 6 THEN rest
             ELSE IF s2 = 0 THEN rest
             ELSE <<[code |-> row.code, gate1_score |-> s1,
                     gate2_priority |-> s2, timing |-> timing]>> \o rest

\* (gate2_priority, gate1_score) of a comes before that of b, ascending=False
SortsBefore(a, b) ==
    \/ a.gate2_priority > b.gate2_priority
    \/ a.gate2_priority = b.gate2_priority /\ a.gate1_score > b.gate1_score

\* df.sort_values(["gate2_priority", "gate1_score"], ascending=False): the
\* orders of the rows that respect the keys (rows with equal keys in any order)
sort_values(results) ==
    LET n == Len(results)
        orders == {p \in [1..n -> 1..n] :
                      /\ \A i, j \in 1..n : i # j => p[i] # p[j]
                      /\ \A i, j \in 1..n :
                             i < j => ~SortsBefore(results[p[j]], results[p[i]])}
    IN  {[i \in 1..n |-> results[p[i]]] : p \in orders}

\* the ways a run can end: sort_values on the frame of an empty list has no
\* column to sort by and raises KeyError before anything is written
run_pipeline(stocks) ==
    LET results == pipeline_results(stocks)
        evaluated == [i \in 1..Len(stocks) |-> stocks[i].code]
    IN  IF results = <<>>
        THEN {[raised |-> "KeyError", evaluated |-> evaluated,
               results |-> results, written |-> FALSE, rows |-> <<>>]}
        ELSE {[raised |-> "None", evaluated |-> evaluated,
               results |-> results, written |-> TRUE, rows |-> rows] :
                  rows \in sort_values(results)}

(* ------------------------- StockTrendAnalyzer -------------------------- *)

TrendAnalysisResult(passed, score, reason) ==
    [passed |-> passed, score |-> score, reason |-> reason]

\* a row of the financial indicator frame; a column may be absent
IndicatorRow(roe, debt, gross, profit_growth) ==
    [roe |-> roe, debt |-> debt, gross |-> gross, profit_growth |-> profit_growth]

Bar(close, volume) == [close |-> close, volume |-> volume]

\* the first gate of analyze: 2 points for each condition on the latest row
fundamental_score(latest) ==
      (IF float_gt(row_get(latest, "roe", 0), 8) THEN 2 ELSE 0)
    + (IF float_lt(row_get(latest, "debt", 100), 60) THEN 2 ELSE 0)
    + (IF float_gt(row_get(latest, "gross", 0), 20) THEN 2 ELSE 0)
    + (IF float_gt(row_get(latest, "profit_growth", 0), 0) THEN 2 ELSE 0)

\* 5 * k[volume].rolling(5).mean().iloc[-1], for a history of 5 bars or more
RECURSIVE volume_sum(_, _)
volume_sum(k, n) ==
    IF n = 0 THEN 0
    ELSE k[Len(k)].volume + volume_sum(SubSeq(k, 1, Len(k) - 1), n - 1)

\* analyze as it would be if a close equal to the previous one counted as a
\* rebound
analyze_flat_close(indicator, hist) ==
    IF indicator.raises THEN TrendAnalysisResult(FALSE, 0, "exception")
    ELSE IF indicator.data = None \/ Len(indicator.data[1]) = 0
    THEN TrendAnalysisResult(FALSE, 0, "no financial data")
    ELSE LET score == fundamental_score(iloc_last(indicator.data[1]))
         IN  IF 10 * score < 75
             THEN TrendAnalysisResult(FALSE, score, "first gate failed")
             ELSE IF hist.raises THEN TrendAnalysisResult(FALSE, 0, "exception")
             ELSE IF hist.data = None \/ Len(hist.data[1]) < 10
             THEN TrendAnalysisResult(FALSE, score, "too few bars")
             ELSE LET k == hist.data[1]
                      latest_k == k[Len(k)]
                      prev_k == k[Len(k) - 1]
                  IN  IF latest_k.close < prev_k.close
                      THEN TrendAnalysisResult(FALSE, score, "no rebound")
                      ELSE IF 5 * latest_k.volume <= volume_sum(k, 5)
                      THEN TrendAnalysisResult(FALSE, score, "no volume")
                      ELSE TrendAnalysisResult(TRUE, score, "passed gates 1 and 3")

\* StockTrendAnalyzer.analyze: indicator and hist are what the two data calls
\* do; the second call is made only once the first gate is passed, and any
\* exception ends in the except clause
analyze(indicator, hist) ==
    IF indicator.raises THEN TrendAnalysisResult(FALSE, 0, "exception")
    ELSE IF indicator.data = None \/ Len(indicator.data[1]) = 0
    THEN TrendAnalysisResult(FALSE, 0, "no financial data")
    ELSE LET score == fundamental_score(iloc_last(indicator.data[1]))
         IN  IF 10 * score < 75
             THEN TrendAnalysisResult(FALSE, score, "first gate failed")
             ELSE IF hist.raises THEN TrendAnalysisResult(FALSE, 0, "exception")
             ELSE IF hist.data = None \/ Len(hist.data[1]) < 10
             THEN TrendAnalysisResult(FALSE, score, "too few bars")
             ELSE LET k == hist.data[1]
                      latest_k == k[Len(k)]
                      prev_k == k[Len(k) - 1]
                  IN  IF latest_k.close <= prev_k.close
                      THEN TrendAnalysisResult(FALSE, score, "no rebound")
                      ELSE IF 5 * latest_k.volume <= volume_sum(k, 5)
                      THEN TrendAnalysisResult(FALSE, score, "no volume")
                      ELSE TrendAnalysisResult(TRUE, score, "passed gates 1 and 3")

(* ------------------------- DataProvider -------------------------------- *)

\* the keys of data_sources in insertion order
SourceKeys == <<"primary", "secondary", "international">>

SourceNames == [primary |-> "akshare", secondary |-> "baostock",
                international |-> "yfinance"]

SourcePriorities == [primary |-> 1, secondary |-> 2, international |-> 3]

\* an entry of data_sources; module is TRUE when the import succeeded
Source(key, module, failure_count) ==
    [name |-> SourceNames[key], module |-> module,
     priority |-> SourcePriorities[key], failure_count |-> failure_count]

\* data_sources after __init__ and init_sources, imported[key] telling whether
\* the module of that source could be imported
DataProvider_init(imported) ==
    [key \in {SourceKeys[i] : i \in 1..Len(SourceKeys)} |->
        Source(key, imported[key], 0)]

\* the score of a source in the automatic choice
source_score(source) == source.priority * 100 - source.failure_count * 10

\* get_available_source(source_type): a named type is looked up as it is; auto
\* takes the sources with a module, sorts them by score with reverse=True (a
\* stable sort: equal scores keep the insertion order) and returns the first
get_available_source(data_sources, source_type) ==
    IF source_type # "auto"
    THEN IF source_type \in DOMAIN data_sources
         THEN Some(data_sources[source_type]) ELSE None
    ELSE LET available == {i \in 1..Len(SourceKeys) : data_sources[SourceKeys[i]].module}
             score(i) == source_score(data_sources[SourceKeys[i]])
             first == CHOOSE i \in available :
                          \A j \in available :
                              \/ score(j) < score(i)
                              \/ score(j) = score(i) /\ i <= j
         IN  IF available = {} THEN None
             ELSE Some(data_sources[SourceKeys[first]])

SourceKeySet == {SourceKeys[i] : i \in 1..Len(SourceKeys)}

\* the key of an entry of data_sources
source_key(source) == CHOOSE key \in SourceKeySet : SourceNames[key] = source.name

\* the frame of a wrapped function: what became of the decoration and of the
\* call, the attempts made, the source and outcome of the last attempt, and
\* the calls made of it so far
Wrapper(state, max_retries, attempt, source, last, calls) ==
    [state |-> state, max_retries |-> max_retries, attempt |-> attempt,
     source |-> source, last |-> last, calls |-> calls]

NoWrapper == Wrapper("undecorated", 0, 0, None, "none", 0)

\* no provider object
NoProvider == None

\* retry_with_fallback(self, max_retries=3), called with the positional
\* arguments given: without one there is nothing for self and the call raises
\* TypeError; with one it returns the decorator
retry_with_fallback(positional, max_retries) ==
    IF Len(positional) = 0
    THEN Wrapper("TypeError", 0, 0, None, "none", 0)
    ELSE Wrapper("decorated", max_retries, 0, None, "none", 0)

\* wrapper, at the head of the loop: the source the attempt is made on
selected_source(provider) == get_available_source(provider.data_sources, "auto")

\* wrapper, after func returned: failure_count = max(0, failure_count - 1)
record_success(provider, key) ==
    [provider EXCEPT !.data_sources[key].failure_count = Max(0, @ - 1)]

\* wrapper, after func raised: failure_count += 1
record_failure(provider, key) ==
    [provider EXCEPT !.data_sources[key].failure_count = @ + 1]

(* ------------------------- input domains ------------------------------- *)

Codes == {"000001", "600519"}

Scores == {-100, 0, 50, 75, 80, 100, 120}

Thresholds == {60, 75}

PegRatios == {None, Some(-5), Some(0), Some(5), Some(10), Some(15)}

SoftCounts == {0, 2, 3, 4}

CurrentPrices == {-5, 0, 10}

FirstTargets == {8, 12, 13, 15}

SecondTargets == {16}

StopLosses == {-2, 8, 9, 10, 12}

Confidences == {-300, 0, 500, 920, 1000, 2000}

RiskRewards == {Zero, <<-2, 2>>, <<3, 2>>, <<4, 2>>, <<5, 2>>, <<5, 1>>}

RationalVerdicts ==
    {RationalInvestmentScore(c, s, v) : c \in Codes, s \in Scores, v \in BOOLEAN}

GrowthVerdicts ==
    {GrowthValuationPosition(c, q, p) : c \in {"000001"}, q \in Quadrant, p \in PegRatios}

\* timing verdicts that differ in their conditions
ConditionVerdicts ==
    {ShortTermSignal("000001", t, m, u, n, 10, 13, 16, 8) :
        t \in BOOLEAN, m \in BOOLEAN, u \in BOOLEAN, n \in SoftCounts}

\* timing verdicts that differ in their prices
PriceVerdicts ==
    {ShortTermSignal("000001", TRUE, TRUE, TRUE, 3, p, t1, t2, sl) :
        p \in CurrentPrices, t1 \in FirstTargets, t2 \in SecondTargets,
        sl \in StopLosses}

\* the verdicts gathered for an integration run: every gate can pass or fail
JoinScores == {75}

JoinQuadrants == {BOTTOM_RIGHT, TOP_LEFT}

JoinRational ==
    {RationalInvestmentScore(c, s, v) : c \in Codes, s \in JoinScores, v \in BOOLEAN}

JoinGrowth ==
    {GrowthValuationPosition(c, q, None) : c \in Codes, q \in JoinQuadrants}

JoinShortTerm ==
    {ShortTermSignal(c, t, TRUE, TRUE, 2, 10, 13, 16, 8) : c \in Codes, t \in BOOLEAN}

ConfigThresholds == {None, Some(60), Some(75)}

ConfigQuadrants == {None, Some(BOTTOM_RIGHT), Some(TOP_LEFT), Some("diagonal")}

ConfigFiles ==
    {None} \cup
    {Some(ConfigDocument(ts, t, qs, q)) :
        ts \in BOOLEAN, t \in ConfigThresholds,
        qs \in BOOLEAN, q \in ConfigQuadrants}

\* the values a present column takes in the latest row
ColumnValues ==
    [leverage |-> {50, 70, 90}, liquidity |-> {1, 2}, roe |-> {10, 15},
     cashflow |-> {0, 5}, net_profit |-> {-3, 0, 4},
     profit_growth |-> {-5, 0, 5, 10, 15, 20, 25, 30, 35}, pe |-> {10, 20, 30}]

Optional(values) == {None} \cup {Some(v) : v \in values}

HealthyRow == FundamentalRow(Some(50), Some(2), Some(15), Some(5), Some(4), Some(35), Some(10))

WeakRow == FundamentalRow(Some(90), Some(1), Some(10), Some(0), Some(-3), Some(-5), Some(30))

\* the rows before the latest one
OlderRows == {HealthyRow, WeakRow}

\* latest rows that differ in the columns gate1_score reads
Gate1Rows ==
    {FundamentalRow(lv, lq, r, cf, np, None, None) :
        lv \in Optional(ColumnValues.leverage),
        lq \in Optional(ColumnValues.liquidity),
        r \in Optional(ColumnValues.roe),
        cf \in Optional(ColumnValues.cashflow),
        np \in Optional(ColumnValues.net_profit)}

\* latest rows that differ in the columns gate2_priority reads
Gate2Rows ==
    {FundamentalRow(Some(50), Some(2), Some(15), Some(5), Some(4), g, v) :
        g \in Optional(ColumnValues.profit_growth),
        v \in Optional(ColumnValues.pe)}

\* None (the fetch failed), the empty frame, and the frames ending in a row
Fundamentals(rows) ==
    {None, Some(<<>>)} \cup
    {Some(h \o <<r>>) : h \in UNION {[1..n -> OlderRows] : n \in 0..(MaxSnapshots - 1)},
                        r \in rows}

RecentCloses == {90, 94, 95, 96, 100, 101, 105}

\* how many of the closes just before the latest one are at 101 instead of 100
RaisedCloses == {0, 5}

\* n closes: the latest is recent, those that left the 20-day window are 300
CloseSeries(n, raised, recent) ==
    [i \in 1..n |-> IF i = n THEN recent
                    ELSE IF i >= n - raised THEN 101
                    ELSE IF i <= n - timing_window THEN 300
                    ELSE 100]

PriceSeries ==
    {None} \cup
    {Some(CloseSeries(n, h, r)) :
        n \in 0..MaxCloses, h \in RaisedCloses, r \in RecentCloses}

\* fetch_stock_list: the i-th instrument of the list
CodeNames == <<"000001", "000002", "600519", "300750">>

\* latest rows with gate1 scores 4..7 and gate2 priorities 0, 1, 3
PipelineRows ==
    {FundamentalRow(Some(50), Some(lq), Some(r), Some(5), Some(4), Some(g), Some(10)) :
        lq \in {1, 2}, r \in {10, 15}, g \in {0, 15, 35}}

FundamentalResponses ==
    {Response(TRUE, <<>>), Response(FALSE, <<>>)} \cup
    {Response(FALSE, <<WeakRow, r>>) : r \in PipelineRows}

DailyResponses ==
    {Response(TRUE, <<>>),
     Response(FALSE, CloseSeries(timing_window, 0, 90)),
     Response(FALSE, CloseSeries(timing_window, 0, 105))}

\* the stock list of n instruments and what the two fetches of each one give
StockList(n, funda, daily) ==
    [i \in 1..n |-> [code |-> CodeNames[i], funda |-> funda[i], daily |-> daily[i]]]

\* latest indicator rows around each of the four conditions
IndicatorRows ==
    {IndicatorRow(r, d, g, p) :
        r \in Optional({8, 9}), d \in Optional({59, 60}),
        g \in Optional({20, 21}), p \in Optional({0, 1})}

\* the latest row alone (a column it lacks is missing from the frame), or after
\* an older row that meets all four conditions (a value it lacks is NaN)
IndicatorResponses ==
    {Response(TRUE, None), Response(FALSE, None), Response(FALSE, Some(<<>>))} \cup
    {Response(FALSE, Some(<<r>>)) : r \in IndicatorRows} \cup
    {Response(FALSE, Some(<<IndicatorRow(Some(9), Some(59), Some(21), Some(1)), r>>)) :
        r \in IndicatorRows}

\* n bars: flat ones, then the previous bar and the latest bar
BarSeries(n, prev_volume, latest) ==
    [i \in 1..n |-> IF i = n THEN latest
                    ELSE IF i = n - 1 THEN Bar(10, prev_volume)
                    ELSE Bar(10, 100)]

\* latest bars on both sides of the previous close and of the 5-bar mean
HistResponses ==
    {Response(TRUE, None), Response(FALSE, None), Response(FALSE, Some(<<>>))} \cup
    {Response(FALSE, Some(BarSeries(n, pv, Bar(c, v)))) :
        n \in {9, 10, MaxBars}, pv \in {100, 200},
        c \in {9, 10, 11}, v \in {100, 101, 125, 126}}

SourceTypes == {"auto", "primary", "secondary", "international", "backup"}

\* data_sources with any modules imported and any failures counted so far
DataSources ==
    {[key \in {"primary", "secondary", "international"} |->
         [DataProvider_init(imported)[key] EXCEPT !.failure_count = failures[key]]] :
        imported \in [{"primary", "secondary", "international"} -> BOOLEAN],
        failures \in [{"primary", "secondary", "international"} -> 0..MaxFailures]}

(* ------------------------- the caller ---------------------------------- *)

NoCall == [op |-> "none", args |-> <<>>, result |-> <<>>]

Returned(op, args, result) ==
    /\ call' = [op |-> op, args |-> args, result |-> result]
    /\ pc' = "returned"

Init ==
    /\ pc = "idle"
    /\ call = NoCall
    /\ rational_scores = <<>>
    /\ growth_positions = <<>>
    /\ short_term_signals = <<>>
    /\ data_provider = NoProvider
    /\ wrapper = NoWrapper

CallIsPass ==
    /\ pc = "idle"
    /\ \E r \in RationalVerdicts, th \in Thresholds :
           Returned("is_pass", <<r, th>>, is_pass(r, th))
    /\ UNCHANGED <<rational_scores, growth_positions, short_term_signals, data_provider, wrapper>>

CallDetermineSignalLevel ==
    /\ pc = "idle"
    /\ \E a \in BOOLEAN, b \in BOOLEAN, c \in BOOLEAN :
           Returned("_determine_signal_level", <<a, b, c>>,
                    determine_signal_level(a, b, c))
    /\ UNCHANGED <<rational_scores, growth_positions, short_term_signals, data_provider, wrapper>>

CallCalculateConfidenceScore ==
    /\ pc = "idle"
    /\ \E r \in RationalVerdicts, g \in GrowthVerdicts,
          s \in ConditionVerdicts, pass_all \in BOOLEAN :
           Returned("_calculate_confidence_score", <<r, g, s, pass_all>>,
                    calculate_confidence_score(r, g, s, pass_all))
    /\ UNCHANGED <<rational_scores, growth_positions, short_term_signals, data_provider, wrapper>>

CallCalculatePositionSize ==
    /\ pc = "idle"
    /\ \E level \in SignalLevel, c \in Confidences, rr \in RiskRewards :
           Returned("_calculate_position_size", <<level, c, rr>>,
                    calculate_position_size(level, c, rr))
    /\ UNCHANGED <<rational_scores, growth_positions, short_term_signals, data_provider, wrapper>>

ReadPotentialReturn ==
    /\ pc = "idle"
    /\ \E s \in PriceVerdicts :
           Returned("potential_return", <<s>>, potential_return(s))
    /\ UNCHANGED <<rational_scores, growth_positions, short_term_signals, data_provider, wrapper>>

ReadRiskRewardRatio ==
    /\ pc = "idle"
    /\ \E s \in PriceVerdicts :
           Returned("risk_reward_ratio", <<s>>, risk_reward_ratio(s))
    /\ UNCHANGED <<rational_scores, growth_positions, short_term_signals, data_provider, wrapper>>

\* the evaluators hand over their verdicts one by one
AddRationalScore ==
    /\ pc \in {"idle", "collect"}
    /\ Len(rational_scores) < MaxLen
    /\ \E r \in JoinRational : rational_scores' = Append(rational_scores, r)
    /\ pc' = "collect"
    /\ UNCHANGED <<call, growth_positions, short_term_signals, data_provider, wrapper>>

AddGrowthPosition ==
    /\ pc \in {"idle", "collect"}
    /\ Len(growth_positions) < MaxLen
    /\ \E g \in JoinGrowth : growth_positions' = Append(growth_positions, g)
    /\ pc' = "collect"
    /\ UNCHANGED <<call, rational_scores, short_term_signals, data_provider, wrapper>>

AddShortTermSignal ==
    /\ pc \in {"idle", "collect"}
    /\ Len(short_term_signals) < MaxLen
    /\ \E s \in JoinShortTerm : short_term_signals' = Append(short_term_signals, s)
    /\ pc' = "collect"
    /\ UNCHANGED <<call, rational_scores, growth_positions, data_provider, wrapper>>

IntegrateStrategies ==
    /\ pc \in {"idle", "collect"}
    /\ \E order \in IterationOrders(all_codes(rational_scores, growth_positions,
                                               short_term_signals)) :
           Returned("integrate_strategies",
                    <<rational_scores, growth_positions, short_term_signals>>,
                    integrate_strategies(order, rational_scores,
                                         growth_positions, short_term_signals))
    /\ UNCHANGED <<rational_scores, growth_positions, short_term_signals, data_provider, wrapper>>

Construct ==
    /\ pc = "idle"
    /\ \E config_file \in ConfigFiles :
           Returned("__init__", <<config_file>>,
                    StrategyIntegrator_init(config_file))
    /\ UNCHANGED <<rational_scores, growth_positions, short_term_signals, data_provider, wrapper>>

CallGate1Score ==
    /\ pc = "idle"
    /\ \E funda \in Fundamentals(Gate1Rows) :
           Returned("gate1_score", <<funda>>, gate1_score(funda))
    /\ UNCHANGED <<rational_scores, growth_positions, short_term_signals, data_provider, wrapper>>

CallGate2Priority ==
    /\ pc = "idle"
    /\ \E funda \in Fundamentals(Gate2Rows) :
           Returned("gate2_priority", <<funda>>, gate2_priority(funda))
    /\ UNCHANGED <<rational_scores, growth_positions, short_term_signals, data_provider, wrapper>>

CallGate3Timing ==
    /\ pc = "idle"
    /\ \E price_df \in PriceSeries :
           Returned("gate3_timing", <<price_df>>, gate3_timing(price_df))
    /\ UNCHANGED <<rational_scores, growth_positions, short_term_signals, data_provider, wrapper>>

RunPipeline ==
    /\ pc = "idle"
    /\ \E n \in 0..MaxStocks :
           \E funda \in [1..n -> FundamentalResponses], daily \in [1..n -> DailyResponses] :
               \E outcome \in run_pipeline(StockList(n, funda, daily)) :
                   Returned("run_pipeline", <<StockList(n, funda, daily)>>, outcome)
    /\ UNCHANGED <<rational_scores, growth_positions, short_term_signals, data_provider, wrapper>>

CallAnalyze ==
    /\ pc = "idle"
    /\ \E indicator \in IndicatorResponses, hist \in HistResponses :
           Returned("analyze", <<indicator, hist>>, analyze(indicator, hist))
    /\ UNCHANGED <<rational_scores, growth_positions, short_term_signals, data_provider, wrapper>>

CallGetAvailableSource ==
    /\ pc = "idle"
    /\ \E data_sources \in DataSources, source_type \in SourceTypes :
           Returned("get_available_source", <<data_sources, source_type>>,
                    get_available_source(data_sources, source_type))
    /\ UNCHANGED <<rational_scores, growth_positions, short_term_signals, data_provider, wrapper>>

\* the caller drops the result and the collections and starts over
Done ==
    /\ pc = "returned"
    /\ pc' = "idle"
    /\ call' = NoCall
    /\ rational_scores' = <<>>
    /\ growth_positions' = <<>>
    /\ short_term_signals' = <<>>
    /\ UNCHANGED <<data_provider, wrapper>>

Next ==
    \/ CallIsPass
    \/ CallDetermineSignalLevel
    \/ CallCalculateConfidenceScore
    \/ CallCalculatePositionSize
    \/ ReadPotentialReturn
    \/ ReadRiskRewardRatio
    \/ AddRationalScore
    \/ AddGrowthPosition
    \/ AddShortTermSignal
    \/ IntegrateStrategies
    \/ Construct
    \/ CallGate1Score
    \/ CallGate2Priority
    \/ CallGate3Timing
    \/ RunPipeline
    \/ CallAnalyze
    \/ CallGetAvailableSource
    \/ Done

Spec == Init /\ [][Next]_vars

(* ------------------------- the data provider --------------------------- *)

\* the object handed to retry_with_fallback as self: data_sources as __init__
\* and init_sources leave them
Providers ==
    {[data_sources |-> DataProvider_init(imported)] :
        imported \in [SourceKeySet -> BOOLEAN]}

\* the class body decorates with no positional argument
Positionals == {<<>>, <<"self">>}

ProviderInit ==
    /\ pc = "idle"
    /\ call = NoCall
    /\ rational_scores = <<>>
    /\ growth_positions = <<>>
    /\ short_term_signals = <<>>
    /\ data_provider \in Providers
    /\ wrapper = NoWrapper

\* @retry_with_fallback(max_retries=n)
Decorate ==
    /\ wrapper.state = "undecorated"
    /\ \E positional \in Positionals, max_retries \in 0..MaxRetries :
           wrapper' = retry_with_fallback(positional, max_retries)
    /\ UNCHANGED <<pc, call, rational_scores, growth_positions,
                   short_term_signals, data_provider>>

\* wrapper(*args, **kwargs) is entered, for the first time or after an earlier
\* call returned or raised: last_error = None, the loop starts over on the
\* failure counts the earlier calls left
CallWrapper ==
    /\ wrapper.state \in {"decorated", "returned", "ConnectionError"}
    /\ wrapper.calls < MaxCalls
    /\ wrapper' = Wrapper("running", wrapper.max_retries, 0, None, "none",
                          wrapper.calls + 1)
    /\ UNCHANGED <<pc, call, rational_scores, growth_positions,
                   short_term_signals, data_provider>>

\* the loop body is entered with a source to try
Attempting ==
    /\ wrapper.state = "running"
    /\ wrapper.attempt < wrapper.max_retries
    /\ selected_source(data_provider) # None

\* func returns: the result is returned
AttemptSucceeds ==
    /\ Attempting
    /\ LET key == source_key(selected_source(data_provider)[1])
       IN  /\ data_provider' = record_success(data_provider, key)
           /\ wrapper' = Wrapper("returned", wrapper.max_retries,
                                 wrapper.attempt + 1, Some(key), "succeeded",
                                 wrapper.calls)
    /\ UNCHANGED <<pc, call, rational_scores, growth_positions, short_term_signals>>

\* func raises: the failure is counted and the loop goes on
AttemptFails ==
    /\ Attempting
    /\ LET key == source_key(selected_source(data_provider)[1])
       IN  /\ data_provider' = record_failure(data_provider, key)
           /\ wrapper' = Wrapper("running", wrapper.max_retries,
                                 wrapper.attempt + 1, Some(key), "failed",
                                 wrapper.calls)
    /\ UNCHANGED <<pc, call, rational_scores, growth_positions, short_term_signals>>

\* if not source: raise ConnectionError
NoSourceAvailable ==
    /\ wrapper.state = "running"
    /\ wrapper.attempt < wrapper.max_retries
    /\ selected_source(data_provider) = None
    /\ wrapper' = [wrapper EXCEPT !.state = "ConnectionError"]
    /\ UNCHANGED <<pc, call, rational_scores, growth_positions,
                   short_term_signals, data_provider>>

\* the loop ran max_retries times: raise ConnectionError
RetriesExhausted ==
    /\ wrapper.state = "running"
    /\ wrapper.attempt >= wrapper.max_retries
    /\ wrapper' = [wrapper EXCEPT !.state = "ConnectionError"]
    /\ UNCHANGED <<pc, call, rational_scores, growth_positions,
                   short_term_signals, data_provider>>

ProviderNext ==
    \/ Decorate
    \/ CallWrapper
    \/ AttemptSucceeds
    \/ AttemptFails
    \/ NoSourceAvailable
    \/ RetriesExhausted

\* the steps the file itself takes: the class body runs the decoration, and
\* the loop of a wrapper that was entered goes on to its return or raise
WrapperSteps ==
    \/ Decorate
    \/ AttemptSucceeds
    \/ AttemptFails
    \/ NoSourceAvailable
    \/ RetriesExhausted

\* a started step of the wrapper is finished; a call may be made at any time,
\* and nothing in the repository makes one happen
ProviderSpec == ProviderInit /\ [][ProviderNext]_vars /\ WF_vars(WrapperSteps)

(* ------------------------- what a call returned ------------------------ *)

ReturnedFrom(op) == pc = "returned" /\ call.op = op

\* the list integrate_strategies returned, and the collections it was given
Signals == call.result

KeysInAllThree ==
    dict_keys(call.args[1]) \cap dict_keys(call.args[2]) \cap dict_keys(call.args[3])

KeysInSome ==
    dict_keys(call.args[1]) \cup dict_keys(call.args[2]) \cup dict_keys(call.args[3])

FundamentalPasses(sig) ==
    /\ ~sig.rational_investment.survival_veto
    /\ sig.rational_investment.total_score >= 75

QuadrantMatches(sig) == sig.growth_valuation.quadrant = BOTTOM_RIGHT

HardConditionsHold(sig) ==
    /\ sig.short_term.trend_conditions_met
    /\ sig.short_term.sentiment_conditions_met
    /\ sig.short_term.structure_conditions_met

(* ------------------------- C1 ------------------------------------------ *)

\* C1: integrate_strategies is a strict-AND join: the returned list holds
\* exactly one signal for every stock code that occurs in all three
\* collections and none for any other code, so its length is the size of the
\* intersection of the three key sets, whatever the gate results are.
StrictAndJoin ==
    ReturnedFrom("integrate_strategies") =>
        /\ {Signals[i].stock_code : i \in 1..Len(Signals)} = KeysInAllThree
        /\ Len(Signals) = Cardinality(KeysInAllThree)

\* one code has all three verdicts (one of them given twice) and passes no
\* gate, the other code lacks a verdict
StrictAndJoinWitness ==
    /\ ReturnedFrom("integrate_strategies")
    /\ Len(Signals) = 1
    /\ KeysInSome = Codes
    /\ Len(call.args[1]) = 2
    /\ dict_keys(call.args[1]) = KeysInAllThree
    /\ ~FundamentalPasses(Signals[1])
    /\ ~QuadrantMatches(Signals[1])
    /\ ~HardConditionsHold(Signals[1])

(* ------------------------- C2 ------------------------------------------ *)

\* C2: the returned list is ranked with Tier 1 first: every Tier 1 signal
\* precedes every Tier 2 signal, every Tier 2 signal precedes every Tier 3
\* signal, and within one tier the confidence score is non-increasing.
RankedBestTierFirst ==
    ReturnedFrom("integrate_strategies") =>
        \A i, j \in 1..Len(Signals) :
            i < j =>
                /\ Signals[i].signal_level <= Signals[j].signal_level
                /\ Signals[i].signal_level = Signals[j].signal_level
                       => Signals[i].confidence_score >= Signals[j].confidence_score

(* ------------------------- C3 ------------------------------------------ *)

\* C3: _determine_signal_level follows the priority table on all eight
\* combinations: Tier 1 iff fundamental, quadrant and hard conditions all
\* pass; Tier 2 iff quadrant and hard conditions pass and fundamental does
\* not; Tier 3 in every other case.
SignalLevelTable ==
    ReturnedFrom("_determine_signal_level") =>
        LET pass_rational == call.args[1]
            pass_growth == call.args[2]
            pass_short_term == call.args[3]
        IN  /\ call.result = LEVEL_1
                <=> (pass_rational /\ pass_growth /\ pass_short_term)
            /\ call.result = LEVEL_2
                <=> (~pass_rational /\ pass_growth /\ pass_short_term)
            /\ call.result = LEVEL_3
                <=> ~(pass_growth /\ pass_short_term)

\* no gate passes and the signal is still given Tier 3
SignalLevelTableWitness ==
    /\ ReturnedFrom("_determine_signal_level")
    /\ call.args = <<FALSE, FALSE, FALSE>>
    /\ call.result = LEVEL_3

(* ------------------------- C4 ------------------------------------------ *)

\* C4: _calculate_confidence_score returns a value in [0, 10] for every
\* total_score, and so does the confidence_score of every returned signal.
ConfidenceInRange ==
    /\ ReturnedFrom("_calculate_confidence_score") =>
           (0 <= call.result /\ call.result <= 1000)
    /\ ReturnedFrom("integrate_strategies") =>
           \A i \in 1..Len(Signals) :
               /\ 0 <= Signals[i].confidence_score
               /\ Signals[i].confidence_score <= 1000

(* ------------------------- C5 ------------------------------------------ *)

\* C5: _calculate_position_size returns a fraction in [0, 0.08] for every
\* tier, confidence score and risk/reward ratio, and so does the
\* suggested_position of every returned signal.
PositionInRange ==
    /\ ReturnedFrom("_calculate_position_size") =>
           (0 <= call.result /\ call.result <= 80000)
    /\ ReturnedFrom("integrate_strategies") =>
           \A i \in 1..Len(Signals) :
               /\ 0 <= Signals[i].suggested_position
               /\ Signals[i].suggested_position <= 80000

(* ------------------------- C6 ------------------------------------------ *)

\* C6: is_pass(threshold) is true iff survival_veto is false and
\* total_score >= threshold; a returned signal whose fundamental verdict
\* carries the veto is never Tier 1 and never has pass_all_strategies.
VetoNeverPasses ==
    /\ ReturnedFrom("is_pass") =>
           (call.result <=> (/\ ~call.args[1].survival_veto
                             /\ call.args[1].total_score >= call.args[2]))
    /\ ReturnedFrom("integrate_strategies") =>
           \A i \in 1..Len(Signals) :
               Signals[i].rational_investment.survival_veto =>
                   /\ Signals[i].signal_level # LEVEL_1
                   /\ ~Signals[i].pass_all_strategies

\* a vetoed verdict whose score reaches the threshold, in the target quadrant
\* with all hard conditions met
VetoNeverPassesWitness ==
    /\ ReturnedFrom("integrate_strategies")
    /\ \E i \in 1..Len(Signals) :
           /\ Signals[i].rational_investment.survival_veto
           /\ Signals[i].rational_investment.total_score >= 75
           /\ QuadrantMatches(Signals[i])
           /\ HardConditionsHold(Signals[i])
           /\ Signals[i].signal_level = LEVEL_2

(* ------------------------- C7 ------------------------------------------ *)

\* C7: with threshold 7.5 and target bottom-right, a returned signal that
\* passes fundamental, is in the target quadrant and meets all hard
\* conditions is Tier 1 with pass_all_strategies and confidence >= 9.0; one
\* in the target quadrant with all hard conditions that fails fundamental is
\* Tier 2 without pass_all_strategies; pass_all_strategies holds exactly for
\* the Tier 1 signals.
TierOneScenario ==
    ReturnedFrom("integrate_strategies") =>
        \A i \in 1..Len(Signals) :
            LET sig == Signals[i]
                target == QuadrantMatches(sig) /\ HardConditionsHold(sig)
            IN  /\ (FundamentalPasses(sig) /\ target) =>
                       /\ sig.signal_level = LEVEL_1
                       /\ sig.pass_all_strategies
                       /\ sig.confidence_score >= 900
                /\ (~FundamentalPasses(sig) /\ target) =>
                       /\ sig.signal_level = LEVEL_2
                       /\ ~sig.pass_all_strategies
                /\ sig.pass_all_strategies <=> sig.signal_level = LEVEL_1

\* a Tier 1 signal at the threshold score and a Tier 2 signal in one list
TierOneScenarioWitness ==
    /\ ReturnedFrom("integrate_strategies")
    /\ \E i, j \in 1..Len(Signals) :
           /\ Signals[i].signal_level = LEVEL_1
           /\ Signals[i].rational_investment.total_score = 75
           /\ Signals[i].confidence_score = 900
           /\ Signals[j].signal_level = LEVEL_2
           /\ ~FundamentalPasses(Signals[j])

(* ------------------------- C8 ------------------------------------------ *)

\* C8: risk_reward_ratio is exactly 0 whenever stop_loss >= current_price,
\* for any first target; it never divides by a non-positive loss and never
\* raises.
RiskRewardGuarded ==
    ReturnedFrom("risk_reward_ratio") =>
        /\ ~Raised(call.result)
        /\ call.result[2] > 0
        /\ call.args[1].stop_loss >= call.args[1].current_price
               => IsZero(call.result)

\* the stop-loss sits exactly at the current price: the loss is 0
RiskRewardGuardedWitness ==
    /\ ReturnedFrom("risk_reward_ratio")
    /\ call.args[1].stop_loss = call.args[1].current_price
    /\ call.args[1].first_target > call.args[1].current_price
    /\ call.result = Zero

(* ------------------------- C9 ------------------------------------------ *)

\* C9: with current_price = 0, whatever the targets and the stop-loss,
\* potential_return is (0, 0) and risk_reward_ratio is 0; potential_return is
\* (0, 0) for every current_price <= 0.
ZeroPriceReportsZero ==
    /\ ReturnedFrom("potential_return") =>
           (call.args[1].current_price <= 0 =>
                IsZero(call.result[1]) /\ IsZero(call.result[2]))
    /\ ReturnedFrom("risk_reward_ratio") =>
           (call.args[1].current_price = 0 => IsZero(call.result))

(* ------------------------- C10 ----------------------------------------- *)

\* C10: the confidence is the sum (capped at 10) of: 4 * min(total_score/10, 1);
\* 3 for the target quadrant, otherwise 2 for any known PEG ratio below 1.0
\* (0 and negatives included), otherwise 1; 2 for all hard conditions plus 1
\* for soft_conditions_met >= 3; and 1 when pass_all is true.
ConfidenceTerms ==
    ReturnedFrom("_calculate_confidence_score") =>
        LET rational == call.args[1]
            growth == call.args[2]
            short_term == call.args[3]
            pass_all == call.args[4]
            fundamental_term == IF rational.total_score <= 100
                                THEN 4 * rational.total_score ELSE 400
            growth_term == IF growth.quadrant = BOTTOM_RIGHT THEN 300
                           ELSE IF growth.peg_ratio # None
                                   /\ growth.peg_ratio[1] < 10 THEN 200
                           ELSE 100
            timing_term == (IF HardConditionsHold([short_term |-> short_term])
                            THEN 200 ELSE 0)
                           + (IF short_term.soft_conditions_met >= 3
                              THEN 100 ELSE 0)
            bonus == IF pass_all THEN 100 ELSE 0
            total == fundamental_term + growth_term + timing_term + bonus
        IN  call.result = IF total <= 1000 THEN total ELSE 1000


(* ------------------------- C11 ----------------------------------------- *)

\* a / b >= c / d for quotients with positive denominators
QAtLeast(q, r) == q[1] * r[2] >= r[1] * q[2]

\* C11: _calculate_position_size returns min(base * (confidence / 10) * m, 0.08)
\* with base 4% / 2% / 1% for Tier 1 / 2 / 3 and m = 1.2 for rr > 2.0, 1.0 for
\* 1.5 < rr <= 2.0, 0.8 otherwise; hence with the same confidence and
\* risk/reward a higher tier never gets a smaller position, and for a fixed
\* tier the position is non-decreasing in the confidence and in the
\* risk/reward ratio.
PositionFormulaMonotone ==
    ReturnedFrom("_calculate_position_size") =>
        LET level == call.args[1]
            confidence == call.args[2]
            rr == call.args[3]
            base == CASE level = LEVEL_1 -> 4 [] level = LEVEL_2 -> 2
                      [] OTHER -> 1
            m == IF rr[1] > 2 * rr[2] THEN 12
                 ELSE IF 2 * rr[1] > 3 * rr[2] THEN 10
                 ELSE 8
            product == base * confidence * m
        IN  /\ call.result = IF product <= 80000 THEN product ELSE 80000
            /\ \A higher \in SignalLevel :
                   higher < level =>
                       calculate_position_size(higher, confidence, rr)
                           >= call.result
            /\ \A more \in Confidences :
                   more >= confidence =>
                       calculate_position_size(level, more, rr) >= call.result
            /\ \A better \in RiskRewards :
                   QAtLeast(better, rr) =>
                       calculate_position_size(level, confidence, better)
                           >= call.result


(* ------------------------- C12 ----------------------------------------- *)

ThresholdKeyMissing(config_file) ==
    \/ config_file[1].rational_investment = None
    \/ config_file[1].rational_investment[1].score_threshold = None

QuadrantKeyMissing(config_file) ==
    \/ config_file[1].growth_valuation_map = None
    \/ config_file[1].growth_valuation_map[1].target_quadrant = None

\* C12: constructing a StrategyIntegrator never fails because of the
\* configuration: with the file missing, or present without the
\* score-threshold key or without the target-quadrant key, the integrator is
\* built with the default for what is missing (7.5, bottom-right).
ConstructionFallsBack ==
    ReturnedFrom("__init__") =>
        LET config_file == call.args[1]
        IN  /\ config_file = None =>
                   call.result = Built(75, BOTTOM_RIGHT)
            /\ (config_file # None /\ ThresholdKeyMissing(config_file)) =>
                   /\ call.result.raised # "KeyError"
                   /\ call.result.raised = "None" =>
                          call.result.rational_threshold = Some(75)
            /\ (config_file # None /\ QuadrantKeyMissing(config_file)) =>
                   /\ call.result.raised # "KeyError"
                   /\ call.result.raised = "None" =>
                          call.result.target_quadrant = Some(BOTTOM_RIGHT)


(* ------------------------- C13 ----------------------------------------- *)

\* the frame a gate was called with has a latest row
HasLatestRow == call.args[1] # None /\ Len(call.args[1][1]) > 0

LatestRow == call.args[1][1][Len(call.args[1][1])]

Gate1Columns == {"leverage", "liquidity", "roe", "cashflow", "net_profit"}

\* the frame with one column of its latest row set to v
WithColumn(column, v) ==
    Some([call.args[1][1] EXCEPT ![Len(call.args[1][1])] =
              [LatestRow EXCEPT ![column] = Some(v)]])

\* C13: gate1_score is >= 0 for every input: 0 for None or an empty frame,
\* otherwise max(raw, 0) with raw = 2 for leverage < 70, + 1 for liquidity
\* ratio > 1, + 2 for ROE > 10, + 2 for operating cash flow > 0, - 2 for net
\* profit < 0, read from the most recent snapshot only; so it lies in 0..7.
Gate1ScoreClamped ==
    ReturnedFrom("gate1_score") =>
        /\ call.result \in 0..7
        /\ ~HasLatestRow => call.result = 0
        /\ (HasLatestRow /\ \A c \in Gate1Columns : LatestRow[c] # None) =>
               LET raw == (IF LatestRow.leverage[1] < 70 THEN 2 ELSE 0)
                          + (IF LatestRow.liquidity[1] > 1 THEN 1 ELSE 0)
                          + (IF LatestRow.roe[1] > 10 THEN 2 ELSE 0)
                          + (IF LatestRow.cashflow[1] > 0 THEN 2 ELSE 0)
                          - (IF LatestRow.net_profit[1] < 0 THEN 2 ELSE 0)
               IN  call.result = IF raw >= 0 THEN raw ELSE 0

\* an older healthy row is ignored and the raw total of the latest row, -2,
\* is clamped to 0
Gate1ScoreClampedWitness ==
    /\ ReturnedFrom("gate1_score")
    /\ HasLatestRow
    /\ Len(call.args[1][1]) = 2
    /\ call.args[1][1][1] = HealthyRow
    /\ LatestRow = FundamentalRow(Some(90), Some(1), Some(10), Some(0), Some(-3),
                                  None, None)
    /\ call.result = 0

(* ------------------------- C14 ----------------------------------------- *)

\* C14: in gate1_score a missing field never helps: the score with a field
\* absent from the latest snapshot is <= the score of the same snapshot with
\* that field present, whatever its value; a snapshot with all five fields
\* absent scores 0 without raising.
MissingFieldNeverHelps ==
    (ReturnedFrom("gate1_score") /\ HasLatestRow) =>
        /\ \A c \in Gate1Columns :
               LatestRow[c] = None =>
                   \A v \in ColumnValues[c] :
                       call.result <= gate1_score(WithColumn(c, v))
        /\ (\A c \in Gate1Columns : LatestRow[c] = None) => call.result = 0

(* ------------------------- C15 ----------------------------------------- *)

\* C15: gate2_priority returns a tier in 0..3: 0 with fewer than two
\* snapshots or with growth <= 0 (for every valuation); otherwise 3 exactly
\* when growth > 30 and valuation < 20, else 2 when growth > 20, else 1 when
\* growth > 10, else 0.  Hence the priority is non-decreasing in growth for a
\* fixed valuation, and a missing valuation never yields tier 3.
Gate2PriorityTable ==
    ReturnedFrom("gate2_priority") =>
        /\ call.result \in 0..3
        /\ (call.args[1] = None \/ Len(call.args[1][1]) < 2) => call.result = 0
        /\ (call.args[1] # None /\ Len(call.args[1][1]) >= 2) =>
               /\ (LatestRow.profit_growth # None /\ LatestRow.pe # None) =>
                      LET growth == LatestRow.profit_growth[1]
                          valuation == LatestRow.pe[1]
                      IN  /\ call.result =
                                 IF growth <= 0 THEN 0
                                 ELSE IF growth > 30 /\ valuation < 20 THEN 3
                                 ELSE IF growth > 20 THEN 2
                                 ELSE IF growth > 10 THEN 1
                                 ELSE 0
                          /\ \A more \in ColumnValues.profit_growth :
                                 more >= growth =>
                                     gate2_priority(WithColumn("profit_growth", more))
                                         >= call.result
               /\ (LatestRow.profit_growth # None
                      /\ LatestRow.profit_growth[1] <= 0) => call.result = 0
               /\ LatestRow.pe = None => call.result # 3

\* high growth at a high valuation stays at tier 2
Gate2PriorityTableWitness ==
    /\ ReturnedFrom("gate2_priority")
    /\ HasLatestRow
    /\ Len(call.args[1][1]) = 2
    /\ LatestRow.profit_growth = Some(35)
    /\ LatestRow.pe = Some(20)
    /\ call.result = 2


(* ------------------------- C16 ----------------------------------------- *)

\* C16: gate3_timing returns one of NO / WATCH / YES: NO for None or fewer
\* than 20 closes; otherwise, with m the mean of the last 20 closes, WATCH
\* when the latest close < 0.95 * m, YES when the latest close > m, and NO
\* when 0.95 * m <= latest close <= m.  For positive prices the WATCH and YES
\* conditions exclude each other, so the order of the two tests is immaterial.
TimingClassification ==
    ReturnedFrom("gate3_timing") =>
        /\ call.result \in {"NO", "WATCH", "YES"}
        /\ (call.args[1] = None \/ Len(call.args[1][1]) < 20) =>
               call.result = "NO"
        /\ (call.args[1] # None /\ Len(call.args[1][1]) >= 20) =>
               LET close == call.args[1][1]
                   latest == close[Len(close)]
                   sum20 == SumLast(close, 20)
                   below == 2000 * latest < 95 * sum20
                   above == 20 * latest > sum20
               IN  /\ below => call.result = "WATCH"
                   /\ above => call.result = "YES"
                   /\ (~below /\ ~above) => call.result = "NO"

\* 21 closes with a 20-day mean of 100 and the latest close at exactly 95
TimingClassificationWitness ==
    /\ ReturnedFrom("gate3_timing")
    /\ call.args[1] # None
    /\ Len(call.args[1][1]) = 21
    /\ call.args[1][1][1] = 300
    /\ call.args[1][1][21] = 95
    /\ SumLast(call.args[1][1], 20) = 2000
    /\ call.result = "NO"


(* ------------------------- C17 ----------------------------------------- *)

Stocks == call.args[1]

RowCodes(rows) == {rows[i].code : i \in 1..Len(rows)}

\* the instrument passes both filters of the loop
PassesFilters(stock) ==
    /\ gate1_score(fetch_fundamental(stock.funda)) >= 6
    /\ gate2_priority(fetch_fundamental(stock.funda)) >= 1

\* C17: in run_pipeline no instrument's failure aborts the others: whatever
\* fetches fail or come back empty, every instrument is evaluated in turn and
\* the run reaches the output step with the instruments that passed (possibly
\* none); a failed fundamentals fetch scores 0 and excludes the instrument, a
\* failed price fetch gives timing NO.
PipelineReachesOutput ==
    ReturnedFrom("run_pipeline") =>
        /\ call.result.raised = "None"
        /\ call.result.written
        /\ call.result.evaluated = [i \in 1..Len(Stocks) |-> Stocks[i].code]
        /\ RowCodes(call.result.rows)
               = {Stocks[i].code : i \in {k \in 1..Len(Stocks) : PassesFilters(Stocks[k])}}
        /\ \A i \in 1..Len(Stocks) :
               Stocks[i].funda.raises =>
                   Stocks[i].code \notin RowCodes(call.result.rows)
        /\ \A i \in 1..Len(Stocks), j \in 1..Len(call.result.rows) :
               (Stocks[i].daily.raises /\ call.result.rows[j].code = Stocks[i].code)
                   => call.result.rows[j].timing = "NO"

(* ------------------------- C18 ----------------------------------------- *)

\* C18: the result set of run_pipeline holds an instrument iff its gate1
\* score is >= 6 and its gate2 priority is >= 1; the timing is recorded and
\* never filters; the rows are ordered by gate2 priority descending and,
\* within a priority, by gate1 score descending; no instrument appears twice.
PipelineResultSet ==
    ReturnedFrom("run_pipeline") =>
        LET results == call.result.results
            rows == call.result.rows
        IN  /\ \A i \in 1..Len(Stocks) :
                   Stocks[i].code \in RowCodes(results) <=> PassesFilters(Stocks[i])
            /\ \A j \in 1..Len(results) :
                   /\ results[j].gate1_score >= 6
                   /\ results[j].gate2_priority >= 1
                   /\ results[j].timing \in {"NO", "WATCH", "YES"}
            /\ \A i, j \in 1..Len(results) :
                   i # j => results[i].code # results[j].code
            /\ call.result.written =>
                   /\ Len(rows) = Len(results)
                   /\ RowCodes(rows) = RowCodes(results)
                   /\ \A i, j \in 1..Len(rows) :
                          i < j =>
                              /\ rows[i].gate2_priority >= rows[j].gate2_priority
                              /\ rows[i].gate2_priority = rows[j].gate2_priority
                                     => rows[i].gate1_score >= rows[j].gate1_score

\* two instruments pass, the second of the list with the higher priority, so
\* the sort moves it to the front; the other one is kept with a timing of NO
PipelineResultSetWitness ==
    /\ ReturnedFrom("run_pipeline")
    /\ Len(Stocks) = 2
    /\ call.result.written
    /\ Len(call.result.rows) = 2
    /\ call.result.rows[1].code = Stocks[2].code
    /\ call.result.rows[1].gate2_priority = 3
    /\ call.result.rows[2].gate2_priority = 1
    /\ call.result.rows[2].timing = "NO"
    /\ Stocks[1].daily.raises


(* ------------------------- C19 ----------------------------------------- *)

\* the indicator call returned a frame with at least one row
IndicatorExists ==
    /\ ~call.args[1].raises
    /\ call.args[1].data # None
    /\ Len(call.args[1].data[1]) > 0

LatestIndicator == call.args[1].data[1][Len(call.args[1].data[1])]

\* all four conditions of the first gate, a missing column taking its default
FourConditionsHold ==
    /\ IndicatorExists
    /\ LatestIndicator.roe # None /\ LatestIndicator.roe[1] > 8
    /\ LatestIndicator.debt # None /\ LatestIndicator.debt[1] < 60
    /\ LatestIndicator.gross # None /\ LatestIndicator.gross[1] > 20
    /\ LatestIndicator.profit_growth # None /\ LatestIndicator.profit_growth[1] > 0

\* the history call returned at least 10 bars
BarsExist ==
    /\ ~call.args[2].raises
    /\ call.args[2].data # None
    /\ Len(call.args[2].data[1]) >= 10

Bars == call.args[2].data[1]

\* the latest close is above the previous one and the latest volume is above
\* the mean of the last five volumes
ReboundOnVolume ==
    /\ BarsExist
    /\ Bars[Len(Bars)].close > Bars[Len(Bars) - 1].close
    /\ 5 * Bars[Len(Bars)].volume
           > Bars[Len(Bars)].volume + Bars[Len(Bars) - 1].volume
             + Bars[Len(Bars) - 2].volume + Bars[Len(Bars) - 3].volume
             + Bars[Len(Bars) - 4].volume

\* C19: analyze returns passed = True exactly when fundamental data exists,
\* all four fundamental conditions hold (score 8), at least 10 bars exist, the
\* latest close is strictly above the previous close and the latest volume is
\* strictly above the 5-bar mean volume; in every other case, an exception of
\* a data call included, it returns a result with passed = False, with score 0
\* for no data or an exception.
AnalyzePassesExactly ==
    ReturnedFrom("analyze") =>
        /\ call.result.passed \in BOOLEAN
        /\ call.result.passed <=> (FourConditionsHold /\ ReboundOnVolume)
        /\ call.result.passed => call.result.score = 8
        /\ call.result.score \in {0, 2, 4, 6, 8}
        /\ call.result.score = 8 <=> (FourConditionsHold /\ ~call.args[2].raises)
        /\ ~IndicatorExists => call.result.score = 0
        /\ (FourConditionsHold /\ call.args[2].raises) => call.result.score = 0

\* a passing analysis on exactly 10 bars, the volume just above the mean
AnalyzePassesExactlyWitness ==
    /\ ReturnedFrom("analyze")
    /\ call.result.passed
    /\ call.result.score = 8
    /\ Len(call.args[2].data[1]) = 10
    /\ call.args[2].data[1][10] = Bar(11, 101)


(* ------------------------- C20 ----------------------------------------- *)

AutoReturned ==
    /\ ReturnedFrom("get_available_source")
    /\ call.args[2] = "auto"

\* the sources of the call whose module is there
AvailableSources ==
    {call.args[1][key] : key \in {k \in DOMAIN call.args[1] : call.args[1][k].module}}

\* C20: get_available_source('auto') selects by priority: with several
\* modules available and equal failure counts it returns the source with the
\* best priority rank (primary, priority 1, before secondary, priority 2,
\* before international, priority 3); it never returns a source whose module
\* is unavailable, and returns None when no module is available.
AutoSelectsByPriority ==
    AutoReturned =>
        /\ call.result = None <=> AvailableSources = {}
        /\ call.result # None => call.result[1] \in AvailableSources
        /\ (/\ call.result # None
            /\ \A a, b \in AvailableSources : a.failure_count = b.failure_count)
               => \A a \in AvailableSources : call.result[1].priority <= a.priority


(* ------------------------- C21 ----------------------------------------- *)

FailureCount(key) == data_provider.data_sources[key].failure_count

\* the wrapped call has ended
CallEnded == wrapper.state \in {"returned", "ConnectionError", "TypeError"}

\* C21: a call wrapped by retry_with_fallback(max_retries = n), the
\* get_stock_data of the class included, ends after at most n attempts: it
\* returns the result of the first successful attempt, or raises
\* ConnectionError after n failed attempts or as soon as no source is
\* available, and nothing else; a failed attempt adds 1 to the failure_count of
\* the source it was made on, a successful one takes 1 off it but not below 0,
\* and no failure_count is ever negative.
WrappedCallContract ==
    /\ [](/\ wrapper.state # "TypeError"
          /\ wrapper.attempt <= wrapper.max_retries
          /\ wrapper.state = "returned"
                 => wrapper.last = "succeeded" /\ wrapper.attempt >= 1
          /\ wrapper.state = "ConnectionError"
                 => \/ wrapper.attempt = wrapper.max_retries /\ wrapper.last # "succeeded"
                    \/ selected_source(data_provider) = None
          /\ \A key \in SourceKeySet : FailureCount(key) >= 0)
    /\ [][/\ wrapper'.attempt = wrapper.attempt + 1 =>
                 LET key == wrapper'.source[1]
                     now == data_provider'.data_sources[key].failure_count
                 IN  /\ wrapper'.last = "failed" => now = FailureCount(key) + 1
                     /\ wrapper'.last = "succeeded" =>
                            now = Max(0, FailureCount(key) - 1)
                     /\ \A other \in SourceKeySet \ {key} :
                            data_provider'.data_sources[other] = data_provider.data_sources[other]
          /\ (wrapper.state = "returned" /\ wrapper'.state # "returned")
                 => wrapper'.state = "running" /\ wrapper'.attempt = 0]_vars
    /\ (wrapper.state = "running") ~> CallEnded


(* ------------------------- C22 ----------------------------------------- *)

\* the last attempt was made on this source and failed
LastFailedOn(key) == wrapper.last = "failed" /\ wrapper.source = Some(key)

\* the last attempt was made on this source and succeeded
SucceededOn(key) == wrapper.last = "succeeded" /\ wrapper.source = Some(key)

\* the module of some other source is there
OtherAvailable(key) ==
    \E other \in SourceKeySet \ {key} : data_provider.data_sources[other].module

\* the automatic choice is now another source
SelectionLeaves(key) ==
    /\ selected_source(data_provider) # None
    /\ source_key(selected_source(data_provider)[1]) # key

====
